---- MODULE Spec2Model ----
(***************************************************************************)
(* Model of the price-tracker visual search back end:                      *)
(*   - the VisualSearchJob life cycle (api/views.py start_visual_search,   *)
(*     get_visual_search_result; api/tasks.py perform_visual_search),      *)
(*   - the process-wide color-sharded vector index (api/util.py            *)
(*     ColorAwareProductVectorIndex, build_enhanced_vector_index,          *)
(*     get_enhanced_vector_index; api/signals.py).                         *)
(* SpecJob is the job state machine, SpecIndex the index.                  *)
(***************************************************************************)
EXTENDS Integers, Sequences, FiniteSets, TLC

VARIABLES
    job_row,        \* the VisualSearchJob row stored in the database
    temp_file,      \* TRUE while the uploaded query image exists in storage
    sub_pc,         \* position of start_visual_search
    sub_job,        \* start_visual_search's in-memory `job` instance
    broker,         \* task messages waiting in the Celery queue
    deliveries,     \* task messages handed to the broker so far
    wk,             \* perform_visual_search executions: pc and locals
    response        \* the last Response of get_visual_search_result and its requester

VARIABLES
    catalog,        \* the Product table: row of each product id, or NoProduct
    heap,           \* every ColorAwareProductVectorIndex object created so far
    index_ref,      \* util._enhanced_vector_index: 0 (None) or a position in heap
    th,             \* threads of the process: pc and locals of the call they run
    calls           \* calls into the index started so far

VARIABLES
    lib_index,      \* a ColorAwareProductVectorIndex object used on its own
    lib_out,        \* the last call on lib_index: its arguments and what it returned
    sc              \* the scores of one candidate: inputs and hybrid scores

indexVars == <<catalog, heap, index_ref, th, calls>>

libVars == <<lib_index, lib_out, sc>>

VARIABLES
    cc,             \* one categorize_by_color or classify_single_color call
    pp,             \* one query image, what process_image and the search task make of it
    pr              \* the search step of one job: color_info and the shards asked for

imageVars == <<cc, pp, pr>>

jobVars == <<job_row, temp_file, sub_pc, sub_job, broker, deliveries, wk, response>>

----------------------------------------------------------------------------
(* Bounds of the model *)

\* task messages the broker may hand out for the one job (1 = no redelivery)
MaxDeliveries == 2
\* largest number of candidates a search returns in the model
MaxCandidates == 1
\* product ids of the catalog
MaxProducts == 2
\* feature vectors are the numbers 0 .. MaxVec
MaxVec == 2
\* neighbouring feature vectors lie Spacing apart; the unit of a squared
\* distance is 0.15, so that the 150.0 of the ranker is 1000 units
Spacing == 32
\* threads of one process (request handlers, signal handlers, commands)
MaxThreads == 2
\* calls into the index (rebuilds, searches, Product writes and deletes) in one run
MaxCalls == 2
\* entries add_product may put into the index used on its own
MaxEntries == 2
\* search is called with k in 1 .. MaxK
MaxK == 3
\* largest distance of a candidate handed to the scoring on its own
MaxDistance == 1100
\* text similarities handed to the scoring are multiples of TextStep
TextStep == 500

----------------------------------------------------------------------------
(* VisualSearchJob, api/models.py *)

STATUS_CHOICES == {"PENDING", "PROCESSING", "SUCCESS", "FAILURE"}

Null == "null"

\* task.id returned by delay() and self.request.id inside the task are the same id
TaskId == "task-1"

\* json.dumps({'candidates': ..., 'image_analysis': ...}); n = number of candidates
ResultsJson(n) == [isnull |-> FALSE, candidates |-> n]

NullResults == [isnull |-> TRUE, candidates |-> 0]

\* str(e) of the exceptions the task can catch
ErrOpen == "FileNotFoundError: temp image"
ErrStage == "stage raised"
ErrDelete == "OSError: delete temp image"

\* field defaults of a new VisualSearchJob
NewJob ==
    [status |-> "PENDING", task_id |-> Null, results |-> NullResults,
     error_message |-> Null, completed_at |-> Null]

\* no row yet
NoRow == [NewJob EXCEPT !.status = "ABSENT"]

Terminal(s) == s \in {"SUCCESS", "FAILURE"}

Users == {"owner", "other", "admin"}

IsSuperuser(u) == u = "admin"

JobUser == "owner"

----------------------------------------------------------------------------
(* perform_visual_search locals *)

Workers == 1 .. MaxDeliveries

IdleWorker ==
    [pc |-> "idle", job |-> NoRow, job_to_fail |-> NoRow, e |-> Null,
     sorted_results |-> 0]

\* the task has returned: its locals are gone
Returned == [IdleWorker EXCEPT !.pc = "done"]

Running(w) == wk[w].pc \notin {"idle", "done", "killed"}

NoResponse ==
    [to |-> Null,
     payload |-> [http |-> Null, status |-> Null, results |-> NullResults, error |-> Null]]

----------------------------------------------------------------------------
(* ProductViewSet.start_visual_search, api/views.py *)

\* VisualSearchJob.objects.create(user=request.user, temp_image=image_file)
SubmitCreate ==
    /\ sub_pc = "create"
    /\ job_row' = NewJob
    /\ sub_job' = NewJob
    /\ temp_file' = TRUE
    /\ sub_pc' = "dispatch"
    /\ UNCHANGED <<broker, deliveries, wk, response, indexVars, libVars, imageVars>>

\* task = perform_visual_search.delay(str(job.id))
SubmitDispatch ==
    /\ sub_pc = "dispatch"
    /\ broker' = broker + 1
    /\ deliveries' = deliveries + 1
    /\ sub_pc' = "save"
    /\ UNCHANGED <<job_row, temp_file, sub_job, wk, response, indexVars, libVars, imageVars>>

\* the row written by job.save(): save() without update_fields writes every field
SavedRow(row, instance) == instance

\* job.task_id = task.id; job.save()
SubmitSave ==
    /\ sub_pc = "save"
    /\ sub_job' = [sub_job EXCEPT !.task_id = TaskId]
    /\ job_row' = SavedRow(job_row, sub_job')
    /\ sub_pc' = "done"
    /\ UNCHANGED <<temp_file, broker, deliveries, wk, response, indexVars, libVars, imageVars>>

----------------------------------------------------------------------------
(* Celery delivery of perform_visual_search, api/tasks.py *)

\* the broker hands the same message out again (at-least-once delivery)
Redeliver ==
    /\ sub_pc \in {"save", "done"}
    /\ deliveries < MaxDeliveries
    /\ broker' = broker + 1
    /\ deliveries' = deliveries + 1
    /\ UNCHANGED <<job_row, temp_file, sub_pc, sub_job, wk, response, indexVars, libVars, imageVars>>

\* a worker takes a message and enters perform_visual_search(job_id)
WorkerReceive(w) ==
    /\ broker > 0
    /\ wk[w].pc = "idle"
    /\ broker' = broker - 1
    /\ wk' = [wk EXCEPT ![w].pc = "get"]
    /\ UNCHANGED <<job_row, temp_file, sub_pc, sub_job, deliveries, response, indexVars, libVars, imageVars>>

\* job = VisualSearchJob.objects.get(id=job_id)
WorkerGet(w) ==
    /\ wk[w].pc = "get"
    /\ wk' = [wk EXCEPT ![w].job = job_row, ![w].pc = "save_processing"]
    /\ UNCHANGED <<job_row, temp_file, sub_pc, sub_job, broker, deliveries, response, indexVars, libVars, imageVars>>

\* job.status = 'PROCESSING'; job.task_id = self.request.id; job.save()
WorkerSaveProcessing(w) ==
    /\ wk[w].pc = "save_processing"
    /\ LET j == [wk[w].job EXCEPT !.status = "PROCESSING", !.task_id = TaskId]
       IN /\ job_row' = SavedRow(job_row, j)
          /\ wk' = [wk EXCEPT ![w].job = j, ![w].pc = "open"]
    /\ UNCHANGED <<temp_file, sub_pc, sub_job, broker, deliveries, response, indexVars, libVars, imageVars>>

\* with job.temp_image.open('rb') as f: image_bytes = f.read()
\* (raises when the file is no longer in storage)
WorkerOpen(w) ==
    /\ wk[w].pc = "open"
    /\ wk' = IF temp_file
             THEN [wk EXCEPT ![w].pc = "pipeline"]
             ELSE [wk EXCEPT ![w].pc = "except", ![w].e = ErrOpen]
    /\ UNCHANGED <<job_row, temp_file, sub_pc, sub_job, broker, deliveries, response, indexVars, libVars, imageVars>>

\* stages 1-4: color analysis, features, OCR, embedding, index search, re-ranking;
\* each stage returns or raises, the result is sorted_results[:5]
WorkerPipeline(w) ==
    /\ wk[w].pc = "pipeline"
    /\ \/ \E n \in 0 .. MaxCandidates :
             wk' = [wk EXCEPT ![w].sorted_results = n, ![w].pc = "save_success"]
       \/ wk' = [wk EXCEPT ![w].pc = "except", ![w].e = ErrStage]
    /\ UNCHANGED <<job_row, temp_file, sub_pc, sub_job, broker, deliveries, response, indexVars, libVars, imageVars>>

\* job.status = 'SUCCESS'; job.results = json.dumps(...); job.completed_at = now; job.save()
WorkerSaveSuccess(w) ==
    /\ wk[w].pc = "save_success"
    /\ LET j == [wk[w].job EXCEPT !.status = "SUCCESS",
                                  !.results = ResultsJson(wk[w].sorted_results),
                                  !.completed_at = "set"]
       IN /\ job_row' = SavedRow(job_row, j)
          /\ wk' = [wk EXCEPT ![w].job = j, ![w].pc = "delete"]
    /\ UNCHANGED <<temp_file, sub_pc, sub_job, broker, deliveries, response, indexVars, libVars, imageVars>>

\* job.temp_image.delete(save=False): removes the file, or the storage raises
WorkerDelete(w) ==
    /\ wk[w].pc = "delete"
    /\ \/ /\ temp_file' = FALSE
          /\ wk' = [wk EXCEPT ![w] = Returned]
       \/ /\ temp_file
          /\ temp_file' = temp_file
          /\ wk' = [wk EXCEPT ![w].pc = "except", ![w].e = ErrDelete]
    /\ UNCHANGED <<job_row, sub_pc, sub_job, broker, deliveries, response, indexVars, libVars, imageVars>>

\* except Exception as e: job_to_fail = VisualSearchJob.objects.get(id=job_id)
WorkerExceptGet(w) ==
    /\ wk[w].pc = "except"
    /\ wk' = [wk EXCEPT ![w].job_to_fail = job_row, ![w].pc = "except_save"]
    /\ UNCHANGED <<job_row, temp_file, sub_pc, sub_job, broker, deliveries, response, indexVars, libVars, imageVars>>

\* job_to_fail.status = 'FAILURE'; .error_message = str(e); .completed_at = now; save()
WorkerExceptSave(w) ==
    /\ wk[w].pc = "except_save"
    /\ LET j == [wk[w].job_to_fail EXCEPT !.status = "FAILURE",
                                          !.error_message = wk[w].e,
                                          !.completed_at = "set"]
       IN /\ job_row' = SavedRow(job_row, j)
          /\ wk' = [wk EXCEPT ![w] = Returned]
    /\ UNCHANGED <<temp_file, sub_pc, sub_job, broker, deliveries, response, indexVars, libVars, imageVars>>

\* the worker process is killed (hard time limit, OOM, restart): no handler runs
WorkerKill(w) ==
    /\ Running(w)
    /\ wk' = [wk EXCEPT ![w] = [IdleWorker EXCEPT !.pc = "killed"]]
    /\ UNCHANGED <<job_row, temp_file, sub_pc, sub_job, broker, deliveries, response, indexVars, libVars, imageVars>>

----------------------------------------------------------------------------
(* ProductViewSet.get_visual_search_result, api/views.py *)

\* the Response without the test of job.user against request.user
Payload_any_requester(r, u) ==
    IF r.status = "ABSENT"
    THEN [http |-> "404", status |-> "FAILURE", results |-> NullResults,
          error |-> "Job not found."]
    ELSE IF r.status = "SUCCESS"
    THEN [http |-> "200", status |-> r.status, results |-> r.results, error |-> Null]
    ELSE IF r.status = "FAILURE"
    THEN [http |-> "200", status |-> r.status, results |-> NullResults,
          error |-> IF r.error_message = Null
                    THEN "An unknown processing error occurred."
                    ELSE r.error_message]
    ELSE [http |-> "200", status |-> r.status, results |-> NullResults, error |-> Null]

\* the Response (HTTP status and body) for requester u reading row r
Payload(r, u) ==
    IF r.status = "ABSENT"
    THEN [http |-> "404", status |-> "FAILURE", results |-> NullResults,
          error |-> "Job not found."]
    ELSE IF JobUser # u /\ ~IsSuperuser(u)
    THEN [http |-> "403", status |-> "FAILURE", results |-> NullResults,
          error |-> "Permission denied."]
    ELSE IF r.status = "SUCCESS"
    THEN [http |-> "200", status |-> r.status, results |-> r.results, error |-> Null]
    ELSE IF r.status = "FAILURE"
    THEN [http |-> "200", status |-> r.status, results |-> NullResults,
          error |-> IF r.error_message = Null
                    THEN "An unknown processing error occurred."
                    ELSE r.error_message]
    ELSE [http |-> "200", status |-> r.status, results |-> NullResults, error |-> Null]

get_visual_search_result(u) ==
    /\ response' = [to |-> u, payload |-> Payload(job_row, u)]
    /\ UNCHANGED <<job_row, temp_file, sub_pc, sub_job, broker, deliveries, wk, indexVars, libVars, imageVars>>

JobNext ==
    \/ SubmitCreate
    \/ SubmitDispatch
    \/ SubmitSave
    \/ Redeliver
    \/ \E w \in Workers : WorkerReceive(w)
    \/ \E w \in Workers : WorkerGet(w)
    \/ \E w \in Workers : WorkerSaveProcessing(w)
    \/ \E w \in Workers : WorkerOpen(w)
    \/ \E w \in Workers : WorkerPipeline(w)
    \/ \E w \in Workers : WorkerSaveSuccess(w)
    \/ \E w \in Workers : WorkerDelete(w)
    \/ \E w \in Workers : WorkerExceptGet(w)
    \/ \E w \in Workers : WorkerExceptSave(w)
    \/ \E w \in Workers : WorkerKill(w)
    \/ \E u \in Users : get_visual_search_result(u)

----------------------------------------------------------------------------
(* The Product table, api/models.py, and the index objects, api/util.py *)

Products == 1 .. MaxProducts

Vecs == 0 .. MaxVec

\* COLOR_CATEGORIES.keys() + ['unknown']: the keys of color_indices
ShardKeys ==
    {"red", "orange", "yellow", "green", "blue", "purple", "pink", "white",
     "black", "brown", "unknown"}

\* values of Product.color_category in the model; "teal" is no key of color_indices
ProductColors == {"red", "teal"}

NoProduct == [exists |-> FALSE, has_embedding |-> FALSE, visual_embedding |-> 0,
              color_category |-> "unknown"]

\* a stored Product; has_embedding = FALSE is visual_embedding NULL
ProductRows ==
    {NoProduct} \cup
    [exists : {TRUE}, has_embedding : {TRUE}, visual_embedding : Vecs,
     color_category : ProductColors] \cup
    [exists : {TRUE}, has_embedding : {FALSE}, visual_embedding : {0},
     color_category : ProductColors \cup {"unknown"}]

EmptyShard == [index |-> <<>>, product_ids |-> <<>>]

\* ColorAwareProductVectorIndex.__init__; built_from and complete are what the
\* build that created the object fetched and whether it has returned; replaced
\* is the index the object replaced as the global, when that one was complete;
\* clean says that the object received the adds of its own build and no others
EmptyIndex ==
    [color_indices |-> [c \in ShardKeys |-> EmptyShard],
     built_from |-> {}, complete |-> FALSE, replaced |-> 0, clean |-> TRUE]

\* the heap `h` after an add from outside its build reached the object `o`, or
\* an add of the build of `o` went to another object
Interfered(h, o) == [h EXCEPT ![o].clean = FALSE]

\* the fallback taken for every color_category
ShardOf_always_unknown(color_category) == "unknown"

\* the shard add_product picks for color_category
ShardOf(color_category) ==
    IF color_category \in ShardKeys THEN color_category ELSE "unknown"

\* add_product with the shard's lists assigned instead of appended to
add_product_assign(obj, product_id, feature_vector, color_category) ==
    LET c == ShardOf(color_category)
    IN [obj EXCEPT !.color_indices[c] =
           [index |-> <<feature_vector>>, product_ids |-> <<product_id>>]]

\* ColorAwareProductVectorIndex.add_product
add_product(obj, product_id, feature_vector, color_category) ==
    LET c == ShardOf(color_category)
        shard == obj.color_indices[c]
    IN [obj EXCEPT !.color_indices[c] =
           [index |-> Append(shard.index, feature_vector),
            product_ids |-> Append(shard.product_ids, product_id)]]

\* add_product with product_ids.append before index.add: the id stays when the
\* insertion raises
add_product_raising_id_first(obj, product_id, color_category) ==
    LET c == ShardOf(color_category)
    IN [obj EXCEPT !.color_indices[c].product_ids = Append(@, product_id)]

\* add_product when color_index['index'].add raises: product_ids.append is not
\* reached and the except block only logs
add_product_raising(obj, product_id, color_category) == obj

\* number of vectors stored in all shards of obj
Total(obj) ==
    LET RECURSIVE Sum(_)
        Sum(S) == IF S = {} THEN 0
                  ELSE LET c == CHOOSE x \in S : TRUE
                       IN Len(obj.color_indices[c].index) + Sum(S \ {c})
    IN Sum(ShardKeys)

\* Product.objects.filter(visual_embedding__isnull=False): the ids it selects
WithEmbedding == {p \in Products : catalog[p].exists /\ catalog[p].has_embedding}

\* the orders in which the database may return the rows of an unordered query
RowOrders(S) ==
    {f \in [1 .. Cardinality(S) -> S] : \A i, j \in 1 .. Cardinality(S) : i # j => f[i] # f[j]}

\* the queryset's result: the rows in the order the database returned them
FetchedRows(order) ==
    [i \in 1 .. Len(order) |-> [id |-> order[i], row |-> catalog[order[i]]]]

Threads == 1 .. MaxThreads

\* op: the call the thread runs; ref: the index object get_vector_index returned;
\* built: the object its build created; products, i: the queryset and the loop
\* position of the build; before: _enhanced_vector_index when the build was called;
\* cat: the color_category a search was called with
IdleThread ==
    [pc |-> "idle", op |-> "none", ref |-> 0, built |-> 0, before |-> 0,
     products |-> <<>>, i |-> 0, instance |-> [id |-> 0, row |-> NoProduct],
     cat |-> Null]

\* the index object `o` is being loaded by a running build
UnderConstruction(o) ==
    \E t \in Threads : th[t].built = o /\ th[t].pc \in {"b_fetch", "b_add"}

\* the catalog a process finds when it starts: processed products (an embedding,
\* a color) and products not processed yet (visual_embedding NULL)
InitialRows(p) ==
    {[exists |-> TRUE, has_embedding |-> TRUE, visual_embedding |-> p % (MaxVec + 1),
      color_category |-> "red"],
     [exists |-> TRUE, has_embedding |-> FALSE, visual_embedding |-> 0,
      color_category |-> "unknown"]}

----------------------------------------------------------------------------
(* build_enhanced_vector_index and get_enhanced_vector_index, api/util.py *)

\* entering build_enhanced_vector_index for the call `op`
EnterBuild(t, op, instance) ==
    [IdleThread EXCEPT !.pc = "b_new", !.op = op, !.before = index_ref,
                       !.instance = instance]

\* get_enhanced_vector_index for the call `op`: build when the global is None,
\* else return the global
get_enhanced_vector_index(t, op, instance) ==
    IF index_ref = 0
    THEN EnterBuild(t, op, instance)
    ELSE [IdleThread EXCEPT !.pc = op, !.op = op, !.ref = index_ref,
                            !.instance = instance]

NoInstance == [id |-> 0, row |-> NoProduct]

\* a direct call of build_vector_index() (rebuild view, management command)
CallBuild(t) ==
    /\ th[t].pc = "idle"
    /\ calls < MaxCalls
    /\ calls' = calls + 1
    /\ th' = [th EXCEPT ![t] = EnterBuild(t, "build", NoInstance)]
    /\ UNCHANGED <<catalog, heap, index_ref, jobVars, libVars, imageVars>>

\* the value assigned to the global by
\* _enhanced_vector_index = ColorAwareProductVectorIndex(): the new, empty object
PublishNew(old, new) == new

BuildNew(t) ==
    /\ th[t].pc = "b_new"
    /\ heap' = Append(heap, [EmptyIndex EXCEPT !.replaced =
                                 IF index_ref # 0 /\ heap[index_ref].complete
                                 THEN index_ref ELSE 0])
    /\ index_ref' = PublishNew(index_ref, Len(heap) + 1)
    /\ th' = [th EXCEPT ![t].pc = "b_fetch", ![t].built = Len(heap) + 1]
    /\ UNCHANGED <<catalog, calls, jobVars, libVars, imageVars>>

\* products = Product.objects.filter(visual_embedding__isnull=False); products.count();
\* for product in products: the query runs once, in the order the database picks.
\* A database error leaves build_enhanced_vector_index (logged, re-raised).
BuildFetch(t) ==
    /\ th[t].pc = "b_fetch"
    /\ \/ \E order \in RowOrders(WithEmbedding) :
            /\ th' = [th EXCEPT ![t].pc = "b_add", ![t].i = 1,
                                ![t].products = FetchedRows(order)]
            /\ heap' = [heap EXCEPT ![th[t].built].built_from =
                                        {FetchedRows(order)[i] : i \in 1 .. Len(order)}]
       \/ /\ th' = [th EXCEPT ![t] = IdleThread]
          /\ heap' = heap
    /\ UNCHANGED <<catalog, index_ref, calls, jobVars, libVars, imageVars>>

\* loop body: _enhanced_vector_index.add_product(product.id, visual_features, color_category, ...)
BuildAdd(t) ==
    /\ th[t].pc = "b_add"
    /\ th[t].i <= Len(th[t].products)
    /\ LET product == th[t].products[th[t].i]
           added == [heap EXCEPT ![index_ref] =
                        add_product(heap[index_ref], product.id,
                                    product.row.visual_embedding,
                                    product.row.color_category)]
       IN heap' = IF index_ref = th[t].built
                  THEN added
                  ELSE Interfered(Interfered(added, index_ref), th[t].built)
    /\ th' = [th EXCEPT ![t].i = th[t].i + 1]
    /\ UNCHANGED <<catalog, index_ref, calls, jobVars, libVars, imageVars>>

\* return _enhanced_vector_index; in get_enhanced_vector_index the result is
\* assigned to the global again and returned
BuildReturn(t) ==
    /\ th[t].pc = "b_add"
    /\ th[t].i > Len(th[t].products)
    /\ heap' = [heap EXCEPT ![th[t].built].complete = TRUE]
    /\ th' = IF th[t].op = "build"
             THEN [th EXCEPT ![t] = IdleThread]
             ELSE [th EXCEPT ![t].pc = th[t].op, ![t].ref = index_ref,
                             ![t].products = <<>>, ![t].i = 0]
    /\ UNCHANGED <<catalog, index_ref, calls, jobVars, libVars, imageVars>>

----------------------------------------------------------------------------
(* callers of the index: search (api/views.py, api/tasks.py), signals *)

\* the color_category of the searches of the process: a category or None
SearchedColors == {"red", Null}

\* vector_index = get_vector_index() of a search for the category c
CallSearch(t, c) ==
    /\ th[t].pc = "idle"
    /\ calls < MaxCalls
    /\ calls' = calls + 1
    /\ th' = [th EXCEPT ![t] =
                 [get_enhanced_vector_index(t, "search", NoInstance) EXCEPT !.cat = c]]
    /\ UNCHANGED <<catalog, heap, index_ref, jobVars, libVars, imageVars>>

\* vector_index.search(...) is entered: the loop over search_categories starts
\* reading the shards of the object the thread was given
EnterSearch(t) ==
    /\ th[t].pc = "search"
    /\ th' = [th EXCEPT ![t].pc = "searching"]
    /\ UNCHANGED <<catalog, heap, index_ref, calls, jobVars, libVars, imageVars>>

\* vector_index.search(...) returns
Search(t) ==
    /\ th[t].pc = "searching"
    /\ th' = [th EXCEPT ![t] = IdleThread]
    /\ UNCHANGED <<catalog, heap, index_ref, calls, jobVars, libVars, imageVars>>

\* extract_visual_features_resnet of the product's image
EmbeddingOf(p) == p % (MaxVec + 1)

\* process_product_image: product.save() of a processed product, then the post_save
\* receiver update_product_in_index (status completed and an embedding:
\* vector_index = get_vector_index())
SaveProduct(t, p, c) ==
    /\ th[t].pc = "idle"
    /\ calls < MaxCalls
    /\ calls' = calls + 1
    /\ LET row == [exists |-> TRUE, has_embedding |-> TRUE,
                   visual_embedding |-> EmbeddingOf(p), color_category |-> c]
       IN /\ catalog' = [catalog EXCEPT ![p] = row]
          /\ th' = [th EXCEPT ![t] =
                       get_enhanced_vector_index(t, "add", [id |-> p, row |-> row])]
    /\ UNCHANGED <<heap, index_ref, jobVars, libVars, imageVars>>

\* vector_index.add_product(product_id=instance.id, feature_vector=..., color_category=...)
SignalAdd(t) ==
    /\ th[t].pc = "add"
    /\ heap' = Interfered([heap EXCEPT ![th[t].ref] =
                              add_product(heap[th[t].ref], th[t].instance.id,
                                          th[t].instance.row.visual_embedding,
                                          th[t].instance.row.color_category)],
                          th[t].ref)
    /\ th' = [th EXCEPT ![t] = IdleThread]
    /\ UNCHANGED <<catalog, index_ref, calls, jobVars, libVars, imageVars>>

\* product.delete(), then the post_delete receiver remove_product_from_index:
\* build_vector_index() when the instance had an embedding
DeleteProduct(t, p) ==
    /\ th[t].pc = "idle"
    /\ catalog[p].exists
    /\ calls < MaxCalls
    /\ calls' = calls + 1
    /\ catalog' = [catalog EXCEPT ![p] = NoProduct]
    /\ th' = IF catalog[p].has_embedding
             THEN [th EXCEPT ![t] = EnterBuild(t, "build", NoInstance)]
             ELSE th
    /\ UNCHANGED <<heap, index_ref, jobVars, libVars, imageVars>>

IndexNext ==
    \/ \E t \in Threads : CallBuild(t)
    \/ \E t \in Threads : BuildNew(t)
    \/ \E t \in Threads : BuildFetch(t)
    \/ \E t \in Threads : BuildAdd(t)
    \/ \E t \in Threads : BuildReturn(t)
    \/ \E t \in Threads, c \in SearchedColors : CallSearch(t, c)
    \/ \E t \in Threads : EnterSearch(t)
    \/ \E t \in Threads : Search(t)
    \/ \E t \in Threads, p \in Products, c \in ProductColors : SaveProduct(t, p, c)
    \/ \E t \in Threads : SignalAdd(t)
    \/ \E t \in Threads, p \in Products : DeleteProduct(t, p)

----------------------------------------------------------------------------
(* ColorAwareProductVectorIndex.search, api/util.py *)

\* list(self.color_indices.keys()): the keys in insertion order
ShardOrder ==
    <<"red", "orange", "yellow", "green", "blue", "purple", "pink", "white",
      "black", "brown", "unknown">>

\* get_similar_color_categories: similar_map.get(color_category, [])
get_similar_color_categories(color_category) ==
    CASE color_category = "red" -> <<"pink", "orange">>
      [] color_category = "orange" -> <<"red", "yellow">>
      [] color_category = "yellow" -> <<"orange", "green">>
      [] color_category = "green" -> <<"yellow", "blue">>
      [] color_category = "blue" -> <<"green", "purple">>
      [] color_category = "purple" -> <<"blue", "pink">>
      [] color_category = "pink" -> <<"red", "purple">>
      [] color_category = "white" -> <<"black">>
      [] color_category = "black" -> <<"white">>
      [] color_category = "brown" -> <<"orange", "red">>
      [] OTHER -> <<>>

\* the elements of a sequence
Range(s) == {s[i] : i \in 1 .. Len(s)}

\* `if color_category and color_category in self.color_indices`; None is Null
ValidCategory(color_category) == color_category # Null /\ color_category \in ShardKeys

\* search_categories: the shards search visits, in order
SearchCategories(color_category, search_similar_colors) ==
    IF ValidCategory(color_category)
    THEN IF search_similar_colors
         THEN LET with_similar ==
                      <<color_category>> \o get_similar_color_categories(color_category)
              IN IF "unknown" \in Range(with_similar)
                 THEN with_similar
                 ELSE Append(with_similar, "unknown")
         ELSE <<color_category>>
    ELSE ShardOrder

\* faiss.IndexFlatL2 reports the squared L2 distance; vectors are numbers here
L2(a, b) == (Spacing * (a - b)) * (Spacing * (a - b))

\* s reordered by ascending key, elements of equal key in their order in s
\* (list.sort and sorted are stable); keys[i] is the key of s[i]
StableSort(s, keys) ==
    LET rank(p) == Cardinality({j \in 1 .. Len(s) :
                                   \/ keys[j] < keys[p]
                                   \/ keys[j] = keys[p] /\ j < p}) + 1
    IN [i \in 1 .. Len(s) |-> s[CHOOSE p \in 1 .. Len(s) : rank(p) = i]]

\* how faiss orders stored vectors at the same distance from the query: the
\* library leaves it open, the model takes first-stored-first or last-stored-first
TieOrders == {"first", "last"}

\* color_index['index'].search(query, category_k): the positions of the category_k
\* nearest stored vectors with their distances, nearest first
FlatSearch(shard, query, category_k, tie) ==
    LET n == Len(shard.index)
        hits == [i \in 1 .. n |-> [idx |-> i, dist |-> L2(shard.index[i], query)]]
        keys == [i \in 1 .. n |->
                    hits[i].dist * (n + 1) + (IF tie = "first" THEN i ELSE n + 1 - i)]
    IN SubSeq(StableSort(hits, keys), 1, category_k)

Min(a, b) == IF a <= b THEN a ELSE b

Max(a, b) == IF a >= b THEN a ELSE b

\* is_exact_color_match set for every shard that was asked for
ExactMatch_any_searched(category, color_category) == TRUE

\* 'is_exact_color_match': category == color_category
ExactMatch(category, color_category) == category = color_category

\* the body of `for category in search_categories`: the results of one shard
CategoryResults(obj, feature_vector, color_category, k, category, tie) ==
    LET color_index == obj.color_indices[category]
        ntotal == Len(color_index.index)
        category_k == IF category = color_category
                      THEN Min(k, ntotal)
                      ELSE Min(Max(1, k \div 3), ntotal)
        found == FlatSearch(color_index, feature_vector, category_k, tie)
    IN IF ntotal = 0
       THEN <<>>
       ELSE [i \in 1 .. Len(found) |->
                [product_id |-> color_index.product_ids[found[i].idx],
                 distance |-> found[i].dist,
                 color_category |-> category,
                 is_exact_color_match |-> ExactMatch(category, color_category)]]

\* all_results after the loop over search_categories
AllResults(obj, feature_vector, color_category, k, search_similar_colors, tie) ==
    LET cats == SearchCategories(color_category, search_similar_colors)
        RECURSIVE Collect(_)
        Collect(i) ==
            IF i > Len(cats) THEN <<>>
            ELSE CategoryResults(obj, feature_vector, color_category, k, cats[i], tie)
                     \o Collect(i + 1)
    IN Collect(1)

\* a number larger than every distance between two vectors of the model
FarAway == L2(0, MaxVec) + 1

\* the sort key without the color match preference
SortKey_distance_only(result) == result.distance

\* the sort key with `not` left out: False sorts before True
SortKey_exact_last(result) ==
    (IF result.is_exact_color_match THEN 1 ELSE 0) * (L2(0, MaxVec) + 1) + result.distance

\* all_results.sort(key=lambda x: (not x['is_exact_color_match'], x['distance']))
SortKey(result) ==
    (IF result.is_exact_color_match THEN 0 ELSE 1) * FarAway + result.distance

\* ColorAwareProductVectorIndex.search: the sorted results cut to k
search(obj, feature_vector, color_category, k, search_similar_colors, tie) ==
    LET all_results == AllResults(obj, feature_vector, color_category, k,
                                  search_similar_colors, tie)
        sorted == StableSort(all_results,
                             [i \in 1 .. Len(all_results) |-> SortKey(all_results[i])])
    IN SubSeq(sorted, 1, Min(k, Len(sorted)))

----------------------------------------------------------------------------
(* the hybrid score of a candidate: api/tasks.py and the copy in api/tests.py *)

\* the score 1.0; similarities are counted in thousandths
One == 1000

\* round(x, n) for x = num / den in units of the last kept digit: to the nearest
\* integer, a half to the even neighbour
RoundHalfEven(num, den) ==
    LET q == num \div den
        r == num % den
    IN IF 2 * r < den THEN q
       ELSE IF 2 * r > den THEN q + 1
       ELSE IF q % 2 = 0 THEN q ELSE q + 1

\* visual_score = max(0.0, 1.0 - (distance / 150.0)), distance in units of 0.15
visual_score(distance) == Max(0, One - distance)

\* what calculate_cosine_similarity may return: the cosine of two embeddings,
\* from -1.0 to 1.0, and 0 when a vector is missing or has zero norm
CosineValues == {t \in (0 - One) .. One : t % TextStep = 0}

\* api/tasks.py: hybrid_score = visual_score * 0.65 + textual_score * 0.35, stored
\* as round(hybrid_score * 100, 1); the value is in tenths of a point
hybrid_score_task(visual, textual) ==
    RoundHalfEven(65 * visual + 35 * textual, 100)

\* api/tests.py: input_text_confidence, in tenths:
\* 0.5 + (0.3 if more than 3 words) + (0.2 if a digit)
Confidences == {5, 8, 7, 10}

\* api/tests.py: adjusted_visual_weight = 0.6 + (0.15 if visual_score > 0.9 else 0),
\* in hundredths
adjusted_visual_weight(visual) == 60 + (IF visual > 900 THEN 15 ELSE 0)

\* api/tests.py: adjusted_text_weight = 0.4 * input_text_confidence, in hundredths
adjusted_text_weight(confidence) == 4 * confidence

\* api/tests.py: hybrid_score = (visual_score * adjusted_visual_weight +
\* textual_score * adjusted_text_weight) / total_weight, stored as
\* round(hybrid_score * 100, 2); the value is in hundredths of a point
hybrid_score_test(visual, textual, confidence) ==
    LET total_weight == adjusted_visual_weight(visual) + adjusted_text_weight(confidence)
    IN RoundHalfEven(10 * (visual * adjusted_visual_weight(visual)
                              + textual * adjusted_text_weight(confidence)),
                     total_weight)

\* the inputs of one candidate and, once scored, its scores
NoScores ==
    [scored |-> FALSE, distance |-> 0, textual |-> 0, confidence |-> 5,
     visual |-> 0, task |-> 0, test |-> 0]

\* the scores of the candidate with the inputs of `c`
Scored(c) ==
    [c EXCEPT !.scored = TRUE,
              !.visual = visual_score(c.distance),
              !.task = hybrid_score_task(visual_score(c.distance), c.textual),
              !.test = hybrid_score_test(visual_score(c.distance), c.textual,
                                         c.confidence)]

\* the loop body for one candidate
ScoreCandidate ==
    /\ ~sc.scored
    /\ sc' = Scored(sc)
    /\ UNCHANGED <<lib_index, lib_out, jobVars, indexVars, imageVars>>

\* the same candidate at a distance one unit smaller
CloserCandidate ==
    /\ sc.scored
    /\ sc.distance > 0
    /\ sc' = Scored([sc EXCEPT !.distance = sc.distance - 1])
    /\ UNCHANGED <<lib_index, lib_out, jobVars, indexVars, imageVars>>

\* the same candidate with a text similarity one step larger
BetterText ==
    /\ sc.scored
    /\ sc.textual + TextStep <= One
    /\ sc' = Scored([sc EXCEPT !.textual = sc.textual + TextStep])
    /\ UNCHANGED <<lib_index, lib_out, jobVars, indexVars, imageVars>>

ScoreNext ==
    \/ ScoreCandidate
    \/ CloserCandidate
    \/ BetterText

----------------------------------------------------------------------------
(* add_product and search called on one index object, any arguments *)

\* color_category arguments of add_product; "teal" is no key of color_indices
AddColors == {"red", "teal"}

\* color_category arguments of search; Null is None
QueryColors == {"red", "pink", "unknown", "teal", Null}

Ks == 1 .. MaxK

\* op: the call; the arguments it was given; before: the index when add_product
\* was called; result: the list search returned
NoCall ==
    [op |-> "none", product_id |-> 0, feature_vector |-> 0, color_category |-> Null,
     k |-> 0, search_similar_colors |-> FALSE, tie |-> "first",
     before |-> EmptyIndex, result |-> <<>>, status |-> Null]

\* index.add_product(product_id, feature_vector, color_category)
LibAdd(product_id, feature_vector, color_category) ==
    /\ Total(lib_index) < MaxEntries
    /\ lib_index' = add_product(lib_index, product_id, feature_vector, color_category)
    /\ lib_out' = [NoCall EXCEPT !.op = "add", !.product_id = product_id,
                                 !.feature_vector = feature_vector,
                                 !.color_category = color_category,
                                 !.before = lib_index]
    /\ UNCHANGED <<sc, jobVars, indexVars, imageVars>>

\* index.add_product(product_id, feature_vector, color_category) with the
\* insertion into the vector store raising
LibAddRaises(product_id, color_category) ==
    /\ lib_out.op # "add_failed"
    /\ lib_index' = add_product_raising(lib_index, product_id, color_category)
    /\ lib_out' = [NoCall EXCEPT !.op = "add_failed", !.product_id = product_id,
                                 !.color_category = color_category,
                                 !.before = lib_index]
    /\ UNCHANGED <<sc, jobVars, indexVars, imageVars>>

\* a call that only reads lib_index is taken once on each index content: a second
\* one would find the same index and return what it returns as a first one
FreshIndex == lib_out.op \in {"none", "add"}

\* index.search(feature_vector, color_category, k, search_similar_colors)
LibSearch(feature_vector, color_category, k, search_similar_colors, tie) ==
    /\ FreshIndex
    /\ lib_out' = [NoCall EXCEPT !.op = "search", !.feature_vector = feature_vector,
                                 !.color_category = color_category, !.k = k,
                                 !.search_similar_colors = search_similar_colors,
                                 !.tie = tie,
                                 !.result = search(lib_index, feature_vector,
                                                   color_category, k,
                                                   search_similar_colors, tie)]
    /\ UNCHANGED <<lib_index, sc, jobVars, indexVars, imageVars>>

----------------------------------------------------------------------------
(* perform_visual_search, stages 3 and 4: retrieval, re-ranking, the saved row *)

\* vector_index.search(visual_features, search_categories=search_colors, k=20)
SearchK == 20

\* sorted_results[:5]
TopN == 5

\* the element of search_colors that search takes as its color_category: the
\* call names the list search_categories, search has the parameter color_category;
\* the model lets any requested category be the one
RequestedColors == {"red", "unknown"}

\* textual_score of each product: calculate_cosine_similarity of the query's text
\* vector and product_obj.color_aware_text_embedding
TextsOfProducts == [Products -> {0, One}]

\* the loop `for cand in visual_candidates`: one entry per candidate whose product
\* is in product_queryset, in the order of visual_candidates
final_results(visual_candidates, textual_of, present) ==
    LET RECURSIVE Loop(_)
        Loop(i) ==
            IF i > Len(visual_candidates) THEN <<>>
            ELSE LET cand == visual_candidates[i]
                 IN IF cand.product_id \notin present
                    THEN Loop(i + 1)
                    ELSE <<[product_id |-> cand.product_id,
                            distance |-> cand.distance,
                            is_exact_color_match |-> cand.is_exact_color_match,
                            hybrid_score |->
                                hybrid_score_task(visual_score(cand.distance),
                                                  textual_of[cand.product_id])]>>
                         \o Loop(i + 1)
    IN Loop(1)

\* sorted(final_results, key=lambda x: x['scores']['hybrid_score'], reverse=True)[:5]
sorted_results(results) ==
    LET sorted == StableSort(results,
                             [i \in 1 .. Len(results) |-> 0 - results[i].hybrid_score])
    IN SubSeq(sorted, 1, Min(TopN, Len(sorted)))

\* a stage that treats an empty candidate list as an error
StageStatus_fail_on_empty(candidates) ==
    IF candidates = <<>> THEN "FAILURE" ELSE "SUCCESS"

\* job.status after the stage has run without an exception
StageStatus(candidates) == "SUCCESS"

\* stages 3 and 4 on lib_index
LibRank(visual_features, color_category, textual_of, present, tie) ==
    /\ FreshIndex
    /\ LET visual_candidates == search(lib_index, visual_features, color_category,
                                       SearchK, TRUE, tie)
           candidates == IF visual_candidates = <<>>
                         THEN <<>>
                         ELSE sorted_results(final_results(visual_candidates,
                                                           textual_of, present))
       IN lib_out' = [NoCall EXCEPT !.op = "rank", !.feature_vector = visual_features,
                                    !.color_category = color_category,
                                    !.k = SearchK, !.search_similar_colors = TRUE,
                                    !.tie = tie, !.result = candidates,
                                    !.status = StageStatus(candidates)]
    /\ UNCHANGED <<lib_index, sc, jobVars, indexVars, imageVars>>

SearchNext ==
    \/ \E p \in Products, v \in Vecs, c \in AddColors : LibAdd(p, v, c)
    \/ \E p \in Products, c \in AddColors : LibAddRaises(p, c)
    \/ \E v \in Vecs, c \in QueryColors, k \in Ks, similar \in BOOLEAN, tie \in TieOrders :
           LibSearch(v, c, k, similar, tie)

RankNext ==
    \/ \E p \in Products, v \in Vecs, c \in AddColors : LibAdd(p, v, c)
    \/ \E v \in Vecs, c \in RequestedColors, textual_of \in TextsOfProducts,
          present \in SUBSET Products, tie \in TieOrders :
           LibRank(v, c, textual_of, present, tie)

----------------------------------------------------------------------------
(* The search step of a job: api/tasks.py *)

\* the keys of COLOR_CATEGORIES
NamedCategories ==
    {"red", "orange", "yellow", "green", "blue", "purple", "pink", "white",
     "black", "brown"}

\* color_info.get('category') and color_info.get('secondary_category'): a named
\* category, 'unknown', or None when the key is missing
InfoCategories == NamedCategories \cup {"unknown", Null}

\* the orders in which list(set(...)) may give the elements of a set
SetOrders == {"ascending", "descending"}

\* list(set(c for c in [category, secondary_category] if c and c != 'unknown')),
\* then append('unknown')
search_colors(color_info, order) ==
    LET wanted == {c \in {color_info.category, color_info.secondary_category} :
                       c # Null /\ c # "unknown"}
        position(c) == CHOOSE i \in 1 .. Len(ShardOrder) : ShardOrder[i] = c
        listed == IF Cardinality(wanted) = 2
                  THEN LET lo == CHOOSE c \in wanted :
                                     \A d \in wanted : position(c) <= position(d)
                           hi == CHOOSE c \in wanted : c # lo
                       IN IF order = "ascending" THEN <<lo, hi>> ELSE <<hi, lo>>
                  ELSE IF Cardinality(wanted) = 1
                  THEN <<CHOOSE c \in wanted : TRUE>>
                  ELSE <<>>
    IN Append(listed, "unknown")

\* search(query, categories, k) probes each requested shard in the order given
probe_order(search_categories) ==
    SelectSeq(search_categories, LAMBDA c : c \in ShardKeys)

\* a job before its search step
NoProbe ==
    [stage |-> "classified",
     color_info |-> [category |-> "unknown", secondary_category |-> Null],
     search_colors |-> <<>>, probed |-> <<>>]

\* search_colors = ...; search_colors.append('unknown')
BuildSearchColors ==
    /\ pr.stage = "classified"
    /\ \E order \in SetOrders :
           pr' = [pr EXCEPT !.stage = "requested",
                            !.search_colors = search_colors(pr.color_info, order)]
    /\ UNCHANGED <<cc, pp, jobVars, indexVars, libVars>>

\* visual_candidates = vector_index.search(visual_features,
\*                                         search_categories=search_colors, k=20)
SearchRequested ==
    /\ pr.stage = "requested"
    /\ pr' = [pr EXCEPT !.stage = "probed",
                        !.probed = probe_order(pr.search_colors)]
    /\ UNCHANGED <<cc, pp, jobVars, indexVars, libVars>>

ProbeNext ==
    \/ BuildSearchColors
    \/ SearchRequested

-----------------------------------------------------------------------------
(* Image normalization: api/enhanced_preprocessor.py *)

\* the longest side of a query image
MaxSide == 60

\* width and height of a decoded image, in pixels
Sides == 1 .. MaxSide

\* tileGridSize=(8, 8) of cv2.createCLAHE
tileGridSize == 8

\* results as process_image initialises it
NoResults == [success |-> FALSE, error |-> "Processing did not start"]

\* an image no call has looked at
NoImage ==
    [stage |-> "input", decodable |-> TRUE, width |-> 1, height |-> 1,
     results |-> NoResults, job_status |-> "PROCESSING"]

\* None as the result of _convert_to_pil
NoPil == [width |-> 0, height |-> 0]

\* _convert_to_pil: the RGB image, or None when Image.open raises
convert_to_pil(image) ==
    IF image.decodable
    THEN [width |-> image.width, height |-> image.height]
    ELSE NoPil

\* whether the OpenCV and PIL steps may raise on the image: the source tests no
\* size, and CLAHE pads an image that is no multiple of its tile grid; what the
\* libraries do with a side below the tile grid is left open
MayRaise(image) == image.width < tileGridSize \/ image.height < tileGridSize

\* process_image(image_input): `raised` says whether a step after the conversion
\* raised
process_image(image, raised) ==
    IF convert_to_pil(image) = NoPil
    THEN [success |-> FALSE, error |-> "Invalid image input format."]
    ELSE IF raised
    THEN [success |-> FALSE, error |-> "exception"]
    ELSE [success |-> TRUE, error |-> Null]

\* results = preprocessor.process_image(image_bytes)
ProcessImage ==
    /\ pp.stage = "input"
    /\ \E raised \in BOOLEAN :
           /\ raised => (pp.decodable /\ MayRaise(pp))
           /\ pp' = [pp EXCEPT !.stage = "normalized",
                               !.results = process_image(pp, raised)]
    /\ UNCHANGED <<cc, pr, jobVars, indexVars, libVars>>

\* perform_visual_search on the image, nothing raising up to job.save():
\* categorize_by_color and extract_visual_features_resnet catch what the image
\* makes them raise, and neither tests the size of the image
VisualSearchReturns ==
    /\ pp.stage = "input"
    /\ pp' = [pp EXCEPT !.stage = "searched", !.job_status = "SUCCESS"]
    /\ UNCHANGED <<cc, pr, jobVars, indexVars, libVars>>

\* perform_visual_search on the image, a statement of the try block raising
VisualSearchRaises ==
    /\ pp.stage = "input"
    /\ pp' = [pp EXCEPT !.stage = "searched", !.job_status = "FAILURE"]
    /\ UNCHANGED <<cc, pr, jobVars, indexVars, libVars>>

NormalizeNext ==
    \/ ProcessImage
    \/ VisualSearchReturns
    \/ VisualSearchRaises

-----------------------------------------------------------------------------
(* Color classification: api/util.py *)

\* steps per degree of hue and per percent of saturation and value
Resolution == 2

\* a number of degrees or percent in steps
Deg(x) == x * Resolution

\* hue: h * 360 of colorsys.rgb_to_hsv
Hues == 0 .. Deg(360)

\* the ends of 0 .. top and the values one step around each break
Near(breaks, top) ==
    {x \in 0 .. Deg(top) :
        \/ x \in {0, Deg(top)}
        \/ \E b \in breaks : x - Deg(b) \in (0 - 1) .. 1}

\* saturation: s * 100, around the values the classifier compares it with
Saturations == Near({15, 20, 30}, 100)

\* value: v * 100, around the values the classifier compares it with
Values == Near({15, 60, 65, 85}, 100)

\* a red test that leaves hue 345 out
IsRed_above_345(hue) == hue > Deg(345) \/ hue <= Deg(15)

\* hue >= 345 or hue <= 15
IsRed(hue) == hue >= Deg(345) \/ hue <= Deg(15)

\* 10 <= hue <= 30 and saturation >= 30 and 15 <= value <= 65
IsBrown(hue, saturation, value) ==
    /\ Deg(10) <= hue /\ hue <= Deg(30)
    /\ saturation >= Deg(30)
    /\ Deg(15) <= value /\ value <= Deg(65)

classify_single_color(hue, saturation, value) ==
    IF value < Deg(15) THEN "black"
    ELSE IF value > Deg(85) /\ saturation < Deg(15) THEN "white"
    ELSE IF saturation < Deg(20)
         THEN (IF value > Deg(60) THEN "white" ELSE "black")
    ELSE IF IsBrown(hue, saturation, value) THEN "brown"
    ELSE IF IsRed(hue) THEN "red"
    ELSE IF Deg(15) < hue /\ hue <= Deg(45) THEN "orange"
    ELSE IF Deg(45) < hue /\ hue <= Deg(75) THEN "yellow"
    ELSE IF Deg(75) < hue /\ hue <= Deg(150) THEN "green"
    ELSE IF Deg(150) < hue /\ hue <= Deg(250) THEN "blue"
    ELSE IF Deg(250) < hue /\ hue <= Deg(300) THEN "purple"
    ELSE IF Deg(300) < hue /\ hue < Deg(345) THEN "pink"
    ELSE "unknown"

\* n_colors of extract_dominant_colors(pil_image, n_colors=5)
n_colors == 5

\* a dominant color on which rgb_to_hsv raises
Unconvertible == <<0 - 1, 0, 0>>

\* dominant colors as (hue, saturation, value): one of each of six categories
\* (red, orange, green, blue, white, brown), which is one more than the votes
\* of five colors can tell apart, and one that cannot be converted
Swatches ==
    {<<Deg(0), Deg(100), Deg(100)>>, <<Deg(30), Deg(100), Deg(100)>>,
     <<Deg(120), Deg(100), Deg(100)>>, <<Deg(240), Deg(100), Deg(100)>>,
     <<Deg(0), Deg(0), Deg(100)>>, <<Deg(20), Deg(50), Deg(50)>>,
     Unconvertible}

\* hsv_colors: the dominant colors that rgb_to_hsv converts, in their order
hsv_colors(dominant_colors) ==
    SelectSeq(dominant_colors, LAMBDA c : c # Unconvertible)

\* 1.0 as a weight: sixtieths, exact for the weights of up to six colors
WeightUnit == 60

\* every color with the weight of the first
weight_equal(i) == WeightUnit

\* weight = 1.0 / (i + 1) for the color at position i, from 0
weight(i) == WeightUnit \div (i + 1)

\* the category of each converted color
Categories(hsv) ==
    [i \in 1 .. Len(hsv) |-> classify_single_color(hsv[i][1], hsv[i][2], hsv[i][3])]

RECURSIVE SumWeights(_, _)
\* the sum of the weights of the positions of `positions`, from position n down
SumWeights(positions, n) ==
    IF n = 0 THEN 0
    ELSE (IF n \in positions THEN weight(n - 1) ELSE 0) + SumWeights(positions, n - 1)

\* color_votes[category]
color_votes(hsv, category) ==
    SumWeights({i \in 1 .. Len(hsv) : Categories(hsv)[i] = category}, Len(hsv))

\* total_weight
total_weight(hsv) == SumWeights(1 .. Len(hsv), Len(hsv))

\* max(color_votes, key=color_votes.get): the first inserted of the categories
\* with the most votes
best_category(hsv) ==
    LET cats == Categories(hsv)
        first == CHOOSE i \in 1 .. Len(hsv) :
                     /\ \A j \in 1 .. Len(hsv) :
                            color_votes(hsv, cats[j]) <= color_votes(hsv, cats[i])
                     /\ \A j \in 1 .. (i - 1) :
                            color_votes(hsv, cats[j]) < color_votes(hsv, cats[i])
    IN cats[first]

\* the votes of the winner taken as the confidence
Confidence_unnormalised(votes, total) == [num |-> votes, den |-> WeightUnit]

\* confidence = color_votes[best_category] / total_weight, as a fraction
Confidence(votes, total) == [num |-> votes, den |-> total]

\* confidence 0.0
ZeroConfidence == [num |-> 0, den |-> 1]

\* {'category': 'unknown', 'confidence': 0.0, ...}
UnknownColor == [category |-> "unknown", confidence |-> ZeroConfidence]

\* confidence < 0.3
BelowThreshold(confidence) == 10 * confidence.num < 3 * confidence.den

\* categorize_by_color(image): image.decodable is FALSE when opening the image
\* raises, image.colors is what extract_dominant_colors returns for it
categorize_by_color(image) ==
    IF ~image.decodable THEN UnknownColor
    ELSE IF image.colors = <<>> THEN UnknownColor
    ELSE LET hsv == hsv_colors(image.colors)
         IN IF hsv = <<>> THEN UnknownColor
            ELSE LET best == best_category(hsv)
                     confidence == Confidence(color_votes(hsv, best), total_weight(hsv))
                 IN IF BelowThreshold(confidence) THEN UnknownColor
                    ELSE [category |-> best, confidence |-> confidence]

\* no classify_single_color call yet
NoSingle == [hue |-> 0, saturation |-> 0, value |-> 0, category |-> Null]

\* the image of a call that has not been made
NoColorCall ==
    [stage |-> "input", decodable |-> TRUE, colors |-> <<>>,
     color_info |-> [category |-> Null, confidence |-> ZeroConfidence],
     single |-> NoSingle]

\* extract_dominant_colors finds one more dominant color
AddDominantColor(c) ==
    /\ cc.stage = "input"
    /\ cc.decodable
    /\ Len(cc.colors) < n_colors
    /\ cc' = [cc EXCEPT !.colors = Append(@, c)]
    /\ UNCHANGED <<pp, pr, jobVars, indexVars, libVars>>

\* color_info = categorize_by_color(image)
Categorize ==
    /\ cc.stage = "input"
    /\ cc' = [cc EXCEPT !.stage = "categorized",
                        !.color_info = categorize_by_color(cc)]
    /\ UNCHANGED <<pp, pr, jobVars, indexVars, libVars>>

\* category = classify_single_color(hue, saturation, value)
ClassifySingle ==
    /\ cc.stage = "input"
    /\ cc.decodable
    /\ cc.colors = <<>>
    /\ \E hue \in Hues, saturation \in Saturations, value \in Values :
           cc' = [cc EXCEPT !.stage = "classified",
                            !.single = [hue |-> hue, saturation |-> saturation,
                                        value |-> value,
                                        category |-> classify_single_color(
                                                         hue, saturation, value)]]
    /\ UNCHANGED <<pp, pr, jobVars, indexVars, libVars>>

ColorNext ==
    \/ \E c \in Swatches : AddDominantColor(c)
    \/ Categorize
    \/ ClassifySingle

-----------------------------------------------------------------------------
vars == <<jobVars, indexVars, libVars, imageVars>>

JobSpecInit ==
    /\ pr = NoProbe
    /\ pp = NoImage
    /\ cc = NoColorCall
    /\ job_row = NoRow
    /\ temp_file = FALSE
    /\ sub_pc = "create"
    /\ sub_job = NoRow
    /\ broker = 0
    /\ deliveries = 0
    /\ wk = [w \in Workers |-> IdleWorker]
    /\ response = NoResponse
    /\ catalog = [p \in Products |-> NoProduct]
    /\ heap = <<>>
    /\ index_ref = 0
    /\ th = [t \in Threads |-> IdleThread]
    /\ calls = 0
    /\ lib_index = EmptyIndex
    /\ lib_out = NoCall
    /\ sc = NoScores

IndexSpecInit ==
    /\ pr = NoProbe
    /\ pp = NoImage
    /\ cc = NoColorCall
    /\ catalog \in {f \in [Products -> ProductRows] : \A p \in Products : f[p] \in InitialRows(p)}
    /\ heap = <<>>
    /\ index_ref = 0
    /\ th = [t \in Threads |-> IdleThread]
    /\ calls = 0
    /\ job_row = NoRow
    /\ temp_file = FALSE
    /\ sub_pc = "create"
    /\ sub_job = NoRow
    /\ broker = 0
    /\ deliveries = 0
    /\ wk = [w \in Workers |-> IdleWorker]
    /\ response = NoResponse
    /\ lib_index = EmptyIndex
    /\ lib_out = NoCall
    /\ sc = NoScores

\* the job state machine; the index is not touched
SpecJob == JobSpecInit /\ [][JobNext]_vars

\* the index of one process; no job runs
SpecIndex == IndexSpecInit /\ [][IndexNext]_vars

LibSpecInit ==
    /\ pr = NoProbe
    /\ pp = NoImage
    /\ cc = NoColorCall
    /\ lib_index = EmptyIndex
    /\ lib_out = NoCall
    /\ sc = NoScores
    /\ catalog = [p \in Products |-> NoProduct]
    /\ heap = <<>>
    /\ index_ref = 0
    /\ th = [t \in Threads |-> IdleThread]
    /\ calls = 0
    /\ job_row = NoRow
    /\ temp_file = FALSE
    /\ sub_pc = "create"
    /\ sub_job = NoRow
    /\ broker = 0
    /\ deliveries = 0
    /\ wk = [w \in Workers |-> IdleWorker]
    /\ response = NoResponse

ScoreSpecInit ==
    /\ pr = NoProbe
    /\ pp = NoImage
    /\ cc = NoColorCall
    /\ sc \in [scored : {FALSE}, distance : 0 .. MaxDistance, textual : CosineValues,
                confidence : Confidences, visual : {0}, task : {0}, test : {0}]
    /\ lib_index = EmptyIndex
    /\ lib_out = NoCall
    /\ catalog = [p \in Products |-> NoProduct]
    /\ heap = <<>>
    /\ index_ref = 0
    /\ th = [t \in Threads |-> IdleThread]
    /\ calls = 0
    /\ job_row = NoRow
    /\ temp_file = FALSE
    /\ sub_pc = "create"
    /\ sub_job = NoRow
    /\ broker = 0
    /\ deliveries = 0
    /\ wk = [w \in Workers |-> IdleWorker]
    /\ response = NoResponse

\* add_product and search on one index object, any arguments
SpecSearch == LibSpecInit /\ [][SearchNext]_vars

\* add_product and the task's retrieval and re-ranking on one index object
SpecRank == LibSpecInit /\ [][RankNext]_vars

\* the scores of one candidate, any distance and text similarity
SpecScore == ScoreSpecInit /\ [][ScoreNext]_vars

ColorSpecInit ==
    /\ pr = NoProbe
    /\ pp = NoImage
    /\ cc \in [stage : {"input"}, decodable : BOOLEAN, colors : {<<>>},
               color_info : {NoColorCall.color_info}, single : {NoSingle}]
    /\ sc = NoScores
    /\ lib_index = EmptyIndex
    /\ lib_out = NoCall
    /\ catalog = [p \in Products |-> NoProduct]
    /\ heap = <<>>
    /\ index_ref = 0
    /\ th = [t \in Threads |-> IdleThread]
    /\ calls = 0
    /\ job_row = NoRow
    /\ temp_file = FALSE
    /\ sub_pc = "create"
    /\ sub_job = NoRow
    /\ broker = 0
    /\ deliveries = 0
    /\ wk = [w \in Workers |-> IdleWorker]
    /\ response = NoResponse

\* categorize_by_color and classify_single_color on every input
SpecColor == ColorSpecInit /\ [][ColorNext]_vars

NormalizeSpecInit ==
    /\ pr = NoProbe
    /\ pp \in [stage : {"input"}, decodable : BOOLEAN, width : Sides, height : Sides,
               results : {NoResults}, job_status : {"PROCESSING"}]
    /\ cc = NoColorCall
    /\ sc = NoScores
    /\ lib_index = EmptyIndex
    /\ lib_out = NoCall
    /\ catalog = [p \in Products |-> NoProduct]
    /\ heap = <<>>
    /\ index_ref = 0
    /\ th = [t \in Threads |-> IdleThread]
    /\ calls = 0
    /\ job_row = NoRow
    /\ temp_file = FALSE
    /\ sub_pc = "create"
    /\ sub_job = NoRow
    /\ broker = 0
    /\ deliveries = 0
    /\ wk = [w \in Workers |-> IdleWorker]
    /\ response = NoResponse

\* process_image and the search task on images of every size
SpecNormalize == NormalizeSpecInit /\ [][NormalizeNext]_vars

ProbeSpecInit ==
    /\ pr \in [stage : {"classified"},
               color_info : [category : InfoCategories,
                             secondary_category : InfoCategories],
               search_colors : {<<>>}, probed : {<<>>}]
    /\ pp = NoImage
    /\ cc = NoColorCall
    /\ sc = NoScores
    /\ lib_index = EmptyIndex
    /\ lib_out = NoCall
    /\ catalog = [p \in Products |-> NoProduct]
    /\ heap = <<>>
    /\ index_ref = 0
    /\ th = [t \in Threads |-> IdleThread]
    /\ calls = 0
    /\ job_row = NoRow
    /\ temp_file = FALSE
    /\ sub_pc = "create"
    /\ sub_job = NoRow
    /\ broker = 0
    /\ deliveries = 0
    /\ wk = [w \in Workers |-> IdleWorker]
    /\ response = NoResponse

\* the search step of a job for every classification
SpecProbe == ProbeSpecInit /\ [][ProbeNext]_vars

----------------------------------------------------------------------------
(* Properties of the job state machine, checked under SpecJob *)

\* nothing of the job can run any more
Quiescent == sub_pc = "done" /\ broker = 0 /\ \A w \in Workers : ~Running(w)

\* every delivered task has returned
AllReturned ==
    /\ \A w \in Workers : wk[w].pc \in {"idle", "done"}
    /\ \E w \in Workers : wk[w].pc = "done"

\* C1: once the stored status is SUCCESS or FAILURE, no later step of
\* perform_visual_search or start_visual_search changes it.
C1_TerminalStatusNeverChanges ==
    [][Terminal(job_row.status) => job_row'.status = job_row.status]_vars

Rank(s) == CASE s = "ABSENT" -> 0 [] s = "PENDING" -> 1 [] s = "PROCESSING" -> 2 [] OTHER -> 3

\* C2: the submitter's save (task_id, whole row) never moves the stored status
\* backwards and never overwrites the results and completed_at the worker wrote.
C2_SubmitSaveKeepsWorkerWrites ==
    [][SubmitSave => /\ Rank(job_row'.status) >= Rank(job_row.status)
                     /\ job_row'.results = job_row.results
                     /\ job_row'.completed_at = job_row.completed_at]_vars

\* C3: when the submitter and every delivered task have returned, the stored
\* status is SUCCESS or FAILURE (the finite form of "every job eventually is
\* terminal, given that the worker runs the task and the task returns").
C3_ReturnedTaskLeavesTerminalJob ==
    (Quiescent /\ AllReturned) => Terminal(job_row.status)

\* C4: when a worker was killed and nothing of the job can run any more, the
\* job is not left PROCESSING.
C4_KilledWorkerNotLeftProcessing ==
    (Quiescent /\ \E w \in Workers : wk[w].pc = "killed")
        => job_row.status # "PROCESSING"

\* C5: a FAILURE job has a non-empty error_message and no persisted results.
C5_FailureHasNoResults ==
    job_row.status = "FAILURE"
        => job_row.results.isnull /\ job_row.error_message # Null

\* C6: a terminal job whose tasks have all returned has had its temp_image
\* deleted (the claim at rest: no task is between its save and its delete).
C6_TerminalJobImageDeleted ==
    (Terminal(job_row.status) /\ AllReturned) => ~temp_file

\* a response that reports a job in SUCCESS or FAILURE
TerminalResponse(p) == p.http = "200" /\ Terminal(p.status)

\* C7: get_visual_search_result changes no stored state, and when the last
\* response reported the job SUCCESS or FAILURE, the same user's next call returns
\* the same payload.
C7_StatusReadRepeatable ==
    [][\A u \in Users : get_visual_search_result(u) =>
          /\ UNCHANGED <<job_row, temp_file>>
          /\ (response.to = u /\ TerminalResponse(response.payload))
                => response'.payload = response.payload]_vars

----------------------------------------------------------------------------
(* Properties of the index, checked under SpecIndex *)

\* C8: a search never reads an index object that a running build is still
\* loading and that holds fewer entries than the catalog has products with an
\* embedding (an empty or partly populated index).
C8_SearchNeverSeesPartialIndex ==
    \A t \in Threads :
        th[t].pc = "search" =>
            ~(/\ UnderConstruction(th[t].ref)
              /\ Total(heap[th[t].ref]) < Cardinality(WithEmbedding))

\* C9: when build_enhanced_vector_index raises and an index with entries was
\* active when it was called, that index is still the active one afterwards.
C9_FailedBuildKeepsPreviousIndex ==
    [][\A t \in Threads :
          (/\ th[t].pc = "b_fetch" /\ th'[t].pc = "idle"
           /\ th[t].before # 0 /\ heap[th[t].built].replaced = th[t].before
           /\ Total(heap[th[t].before]) > 0)
              => index_ref' = th[t].before]_vars

\* heap[o] and heap[o + 1] come from two builds in a row that fetched the same
\* catalog rows: the second replaced the first when the first had returned, and
\* neither object was touched by another build or by a signal
TwoBuildsInARow(o) ==
    /\ heap[o].complete /\ heap[o + 1].complete
    /\ heap[o + 1].replaced = o
    /\ heap[o].built_from = heap[o + 1].built_from
    /\ heap[o].clean /\ heap[o + 1].clean

\* the (product_id, vector) entries of a shard
ShardEntries(shard) ==
    {<<shard.product_ids[k], shard.index[k]>> : k \in 1 .. Len(shard.index)}

\* C10 as stated: two builds in a row over the same catalog rows hold the same
\* entries in the same order in every shard.
C10_RebuildTwiceSameOrder ==
    \A o \in 1 .. Len(heap) - 1 :
        TwoBuildsInARow(o) => heap[o].color_indices = heap[o + 1].color_indices

\* C10 amended: two builds in a row over the same catalog rows hold the same
\* number and the same set of (product_id, vector) entries in every shard.
C10_RebuildTwiceSameEntries ==
    \A o \in 1 .. Len(heap) - 1 :
        TwoBuildsInARow(o) =>
            \A c \in ShardKeys :
                /\ Len(heap[o].color_indices[c].index) =
                       Len(heap[o + 1].color_indices[c].index)
                /\ ShardEntries(heap[o].color_indices[c]) =
                       ShardEntries(heap[o + 1].color_indices[c])

\* two builds in a row loaded two rows into one shard in different orders
C10_Witness ==
    \E o \in 1 .. Len(heap) - 1 :
        /\ TwoBuildsInARow(o)
        /\ Cardinality(heap[o].built_from) = 2
        /\ heap[o].color_indices # heap[o + 1].color_indices

----------------------------------------------------------------------------
(* Properties of add_product and search *)

\* thread u is inside search, reading the shards of the object o
Searching(u, o) == th[u].pc = "searching" /\ th[u].ref = o

\* C11: the post_save handler never appends to a shard of an index object while
\* another thread is inside a search that visits that shard of that object.
C11_NoAddUnderRunningSearch ==
    [][\A t \in Threads :
          SignalAdd(t) =>
              \A u \in Threads \ {t} :
                  ~(/\ Searching(u, th[t].ref)
                    /\ ShardOf(th[t].instance.row.color_category)
                           \in Range(SearchCategories(th[u].cat, TRUE)))]_vars

\* the last call was a search and returned `lib_out.result`
Searched == lib_out.op = "search"

\* C12 as stated: search returns at most k entries, sorted by non-decreasing
\* distance over the whole list.
C12_SearchSortedByDistance ==
    Searched =>
        /\ Len(lib_out.result) <= lib_out.k
        /\ \A i, j \in 1 .. Len(lib_out.result) :
               i < j => lib_out.result[i].distance <= lib_out.result[j].distance

\* C12 amended: search returns at most k entries; the hits of the primary shard
\* come before all others, and distances are non-decreasing among the hits of the
\* primary shard and among the others.
C12_SearchSortedWithinColorMatch ==
    Searched =>
        /\ Len(lib_out.result) <= lib_out.k
        /\ \A i, j \in 1 .. Len(lib_out.result) :
               i < j =>
                   /\ lib_out.result[j].is_exact_color_match
                          => lib_out.result[i].is_exact_color_match
                   /\ (lib_out.result[i].is_exact_color_match
                          = lib_out.result[j].is_exact_color_match)
                          => lib_out.result[i].distance <= lib_out.result[j].distance

\* a search returned a hit of the primary shard ahead of a nearer hit of another
C12_Witness ==
    /\ Searched
    /\ \E i, j \in 1 .. Len(lib_out.result) :
           /\ i < j
           /\ lib_out.result[i].is_exact_color_match
           /\ ~lib_out.result[j].is_exact_color_match
           /\ lib_out.result[i].distance > lib_out.result[j].distance

\* the product ids of a result list, in order
ProductIds(result) == [i \in 1 .. Len(result) |-> result[i].product_id]

\* no element occurs twice in the sequence
NoDuplicates(s) == \A i, j \in 1 .. Len(s) : i # j => s[i] # s[j]

\* C13: whatever add_product calls rebuilds and post_save signals have made, the
\* list a search returns from the active index contains no product_id twice.
C13_SearchResultHasNoDuplicateProduct ==
    index_ref # 0 =>
        \A v \in Vecs, c \in QueryColors, k \in Ks, tie \in TieOrders :
            NoDuplicates(ProductIds(search(heap[index_ref], v, c, k, TRUE, tie)))

\* the product `product_id` is stored in the shard `c` of lib_index
StoredIn(c, product_id) ==
    \E n \in 1 .. Len(lib_index.color_indices[c].product_ids) :
        lib_index.color_indices[c].product_ids[n] = product_id

\* C14: a hit is marked is_exact_color_match exactly when the search was given a
\* primary category that names a shard and the hit came from that shard; with
\* None or an unknown name as category no hit is marked.
C14_ExactMatchIffPrimaryShard ==
    Searched =>
        \A i \in 1 .. Len(lib_out.result) :
            LET hit == lib_out.result[i]
            IN /\ StoredIn(hit.color_category, hit.product_id)
               /\ hit.is_exact_color_match
                      <=> (/\ lib_out.color_category \in ShardKeys
                           /\ hit.color_category = lib_out.color_category)

\* a search with a primary category returned a hit of that shard and a hit of
\* another shard
C14_Witness ==
    /\ Searched
    /\ lib_out.color_category = "red"
    /\ \E i, j \in 1 .. Len(lib_out.result) :
           /\ lib_out.result[i].color_category = "red"
           /\ lib_out.result[j].color_category = "unknown"

\* a search without a valid category returned hits
C14_WitnessNoPrimary ==
    /\ Searched
    /\ lib_out.color_category \in {Null, "teal"}
    /\ Len(lib_out.result) > 0

\* the shard `c` of lib_index stores the vector `v` for the product `product_id`
StoredWith(c, product_id, v) ==
    \E n \in 1 .. Len(lib_index.color_indices[c].index) :
        /\ lib_index.color_indices[c].product_ids[n] = product_id
        /\ lib_index.color_indices[c].index[n] = v

\* the last call was search(v, c, k=1) for a vector v that shard c stores
SearchedStoredVector ==
    /\ Searched
    /\ lib_out.k = 1
    /\ lib_out.color_category \in ShardKeys
    /\ \E p \in Products : StoredWith(lib_out.color_category, p, lib_out.feature_vector)

\* C15: a search with primary category c and k = 1 for a vector stored in shard
\* c returns exactly one hit, at distance 0 and marked is_exact_color_match, that
\* is a product of shard c stored with that vector.
C15_StoredVectorIsFoundFirst ==
    SearchedStoredVector =>
        /\ Len(lib_out.result) = 1
        /\ lib_out.result[1].distance = 0
        /\ lib_out.result[1].is_exact_color_match
        /\ StoredWith(lib_out.color_category, lib_out.result[1].product_id,
                      lib_out.feature_vector)

\* such a search ran while the unknown shard held the same vector for another product
C15_Witness ==
    /\ SearchedStoredVector
    /\ lib_out.color_category = "red"
    /\ \E p \in Products :
           /\ StoredWith("unknown", p, lib_out.feature_vector)
           /\ ~StoredWith("red", p, lib_out.feature_vector)
    /\ Len(lib_out.result) = 1

\* the last call was add_product
Added == lib_out.op = "add"

\* C17: add_product appends the (product_id, vector) pair to the shard named by
\* color_category when that names a shard, else to the unknown shard, and leaves
\* every other shard as it was.
C17_AddProductTouchesOneShard ==
    Added =>
        LET target == IF lib_out.color_category \in ShardKeys
                      THEN lib_out.color_category
                      ELSE "unknown"
        IN \A c \in ShardKeys :
               IF c = target
               THEN /\ lib_index.color_indices[c].index =
                           Append(lib_out.before.color_indices[c].index,
                                  lib_out.feature_vector)
                    /\ lib_index.color_indices[c].product_ids =
                           Append(lib_out.before.color_indices[c].product_ids,
                                  lib_out.product_id)
               ELSE lib_index.color_indices[c] = lib_out.before.color_indices[c]

\* add_product was called with a category that names no shard on an index that
\* already held an entry
C17_Witness ==
    /\ Added
    /\ lib_out.color_category = "teal"
    /\ Total(lib_out.before) > 0
    /\ Len(lib_index.color_indices["unknown"].index) =
           Len(lib_out.before.color_indices["unknown"].index) + 1

\* every shard of the library index is empty
AllShardsEmpty == Total(lib_index) = 0

\* C16: with every shard empty, search returns the empty list for every query,
\* category and k, and stages 3 and 4 of the job end with status SUCCESS and
\* zero candidates.
C16_EmptyIndexGivesEmptySuccess ==
    AllShardsEmpty =>
        /\ \A v \in Vecs, c \in QueryColors, k \in Ks \cup {SearchK},
              similar \in BOOLEAN, tie \in TieOrders :
               search(lib_index, v, c, k, similar, tie) = <<>>
        /\ lib_out.op = "rank" =>
               /\ lib_out.result = <<>>
               /\ lib_out.status = "SUCCESS"

\* stages 3 and 4 ran on an index whose shards are all empty
C16_Witness ==
    /\ AllShardsEmpty
    /\ lib_out.op = "rank"
    /\ lib_out.k = SearchK
    /\ lib_out.result = <<>>

\* C18: for every distance >= 0 and every text similarity, a negative cosine
\* included, the stored hybrid_score lies in [0, 100]: 0 .. 1000 tenths as
\* api/tasks.py stores it, 0 .. 10000 hundredths as api/tests.py stores it.
C18_HybridScoreWithinRange ==
    sc.scored =>
        /\ 0 <= sc.task /\ sc.task <= 100 * 10
        /\ 0 <= sc.test /\ sc.test <= 100 * 100

\* the range of the stored scores when the text similarity is not negative
ScoreWithinRangeForNonNegativeText ==
    (sc.scored /\ sc.textual >= 0) =>
        /\ 0 <= sc.task /\ sc.task <= 100 * 10
        /\ 0 <= sc.test /\ sc.test <= 100 * 100

\* a step that raises one similarity input and keeps the other inputs
RaisesOneInput == CloserCandidate \/ BetterText

\* C19: with the text similarity and the confidence fixed, a larger visual
\* similarity never gives a smaller hybrid_score, and with the visual similarity
\* fixed, a larger text similarity never gives a smaller hybrid_score.
C19_HybridScoreMonotonic ==
    [][RaisesOneInput => /\ sc'.task >= sc.task
                         /\ sc'.test >= sc.test]_vars

\* the same for the fixed weights of api/tasks.py alone
TaskScoreMonotonic == [][RaisesOneInput => sc'.task >= sc.task]_vars

\* the same for a larger text similarity alone
ScoreMonotonicInText ==
    [][BetterText => /\ sc'.task >= sc.task
                     /\ sc'.test >= sc.test]_vars

\* stages 3 and 4 have stored their candidates
Ranked == lib_out.op = "rank"

\* C20: the stored candidates are ordered by hybrid_score descending, and of two
\* candidates with equal hybrid_score the one at the smaller raw L2 distance
\* comes first, whichever of them is an exact color match.
C20_RankedByScoreThenDistance ==
    Ranked =>
        \A i, j \in 1 .. Len(lib_out.result) :
            i < j =>
                /\ lib_out.result[i].hybrid_score >= lib_out.result[j].hybrid_score
                /\ lib_out.result[i].hybrid_score = lib_out.result[j].hybrid_score
                       => lib_out.result[i].distance <= lib_out.result[j].distance

\* the stored candidates are ordered by hybrid_score descending
RankedByScore ==
    Ranked =>
        \A i, j \in 1 .. Len(lib_out.result) :
            i < j => lib_out.result[i].hybrid_score >= lib_out.result[j].hybrid_score

\* no product is stored twice in the library index
StoredOnce ==
    \A c, d \in ShardKeys :
        \A i \in 1 .. Len(lib_index.color_indices[c].product_ids),
           j \in 1 .. Len(lib_index.color_indices[d].product_ids) :
            lib_index.color_indices[c].product_ids[i] =
                lib_index.color_indices[d].product_ids[j]
            => (c = d /\ i = j)

\* the order of C20 on an index that stores no product twice
RankedByScoreThenDistanceWhenStoredOnce ==
    StoredOnce => C20_RankedByScoreThenDistance

\* categorize_by_color has returned
Categorized == cc.stage = "categorized"

\* C21: for every list of dominant colors, on the voting path, the path without
\* dominant colors and the exception path, the returned confidence is in [0, 1],
\* and a returned confidence below 0.3 comes with category unknown.
C21_ConfidenceInUnitRangeAndLowIsUnknown ==
    Categorized =>
        /\ cc.color_info.confidence.den > 0
        /\ 0 <= cc.color_info.confidence.num
        /\ cc.color_info.confidence.num <= cc.color_info.confidence.den
        /\ BelowThreshold(cc.color_info.confidence)
               => cc.color_info.category = "unknown"

\* five dominant colors were voted and the winner did not get every vote
C21_Witness ==
    /\ Categorized
    /\ Len(hsv_colors(cc.colors)) = n_colors
    /\ cc.color_info.category \notin {"unknown", Null}
    /\ 0 < cc.color_info.confidence.num
    /\ cc.color_info.confidence.num < cc.color_info.confidence.den

\* categorize_by_color has voted on at least one converted color
Voted == Categorized /\ cc.decodable /\ hsv_colors(cc.colors) # <<>>

\* C29: for 1 to 5 voted colors the returned confidence is at least 60/137, so
\* the 'confidence < 0.3' override does not fire, and category unknown is returned
\* only for an image that raises, for no color to vote on, or when
\* classify_single_color returns unknown for a voted color.
C29_WinnerHasAtLeast60Of137 ==
    Categorized =>
        /\ Voted => 137 * cc.color_info.confidence.num
                        >= 60 * cc.color_info.confidence.den
        /\ cc.color_info.category = "unknown"
               => \/ ~cc.decodable
                  \/ hsv_colors(cc.colors) = <<>>
                  \/ \E i \in 1 .. Len(hsv_colors(cc.colors)) :
                         Categories(hsv_colors(cc.colors))[i] = "unknown"

\* five colors of five categories were voted: the winner has exactly 60/137
C29_Witness ==
    /\ Voted
    /\ Len(hsv_colors(cc.colors)) = n_colors
    /\ 137 * cc.color_info.confidence.num = 60 * cc.color_info.confidence.den
    /\ cc.color_info.category = "red"

\* classify_single_color has returned
Classified == cc.stage = "classified"

\* C30: for every hue in [0, 360], saturation in [0, 100] and value in [0, 100]
\* classify_single_color returns one of the ten named categories, never
\* 'unknown', and for hue in [10, 30] with saturation >= 30 and value in
\* [15, 65] it returns brown, not red or orange.
C30_ClassifySingleColorIsTotal ==
    Classified =>
        /\ cc.single.category \in NamedCategories
        /\ (/\ Deg(10) <= cc.single.hue /\ cc.single.hue <= Deg(30)
            /\ cc.single.saturation >= Deg(30)
            /\ Deg(15) <= cc.single.value /\ cc.single.value <= Deg(65))
               => cc.single.category = "brown"

\* hue 15 is in the red range and in the brown range: brown is returned
C30_Witness ==
    /\ Classified
    /\ cc.single.hue = Deg(15)
    /\ cc.single.saturation = Deg(30)
    /\ cc.single.value = Deg(15)
    /\ cc.single.category = "brown"

\* the image decodes and has a side shorter than 50 pixels
TooSmall == pp.decodable /\ (pp.width < 50 \/ pp.height < 50)

\* C22: an image with a side shorter than 50 pixels is rejected by the
\* normalizer, and a search job on such an image ends in FAILURE.
C22_SmallImageRejected ==
    TooSmall =>
        /\ pp.stage = "normalized" => ~pp.results.success
        /\ pp.stage = "searched" => pp.job_status = "FAILURE"

\* no 10 x 10 image is accepted by the normalizer
SmallImageNeverAccepted ==
    ~(/\ pp.stage = "normalized"
      /\ pp.width = 10 /\ pp.height = 10
      /\ pp.results.success)

\* primary, then its entries in the color-neighbor table, then unknown
NeighborRule(primary) ==
    <<primary>> \o get_similar_color_categories(primary) \o <<"unknown">>

\* C23: the search step of a job probes the shard of the primary category, then
\* the shards of its entries in the color-neighbor table, then the unknown
\* shard, and no other; with the primary category unknown or missing it probes
\* no shard outside that rule.
C23_JobProbesPrimaryNeighborsUnknown ==
    pr.stage = "probed" =>
        IF pr.color_info.category \in NamedCategories
        THEN pr.probed = NeighborRule(pr.color_info.category)
        ELSE Range(pr.probed) \subseteq {"unknown"}

\* with a named primary category the probed shards are within the rule
JobProbesWithinRule ==
    (pr.stage = "probed" /\ pr.color_info.category \in NamedCategories) =>
        Range(pr.probed) \subseteq Range(NeighborRule(pr.color_info.category))

\* the primary category is probed first
JobProbesPrimaryFirst ==
    (pr.stage = "probed" /\ pr.color_info.category \in NamedCategories) =>
        pr.probed[1] = pr.color_info.category

\* search of api/util.py, given color_category, visits the shards of the rule
\* for every key of color_indices
UtilSearchFollowsRule ==
    /\ \A c \in NamedCategories : SearchCategories(c, TRUE) = NeighborRule(c)
    /\ SearchCategories("unknown", TRUE) = <<"unknown">>

\* the shards the search visited
ProbedShards ==
    Range(SearchCategories(lib_out.color_category, lib_out.search_similar_colors))

\* the entries of the visited shards, as (shard, position)
ProbedEntries ==
    {e \in ProbedShards \X (1 .. Total(lib_index)) :
        e[2] <= Len(lib_index.color_indices[e[1]].index)}

\* the distance of an entry to the query
DistanceOf(e) == L2(lib_index.color_indices[e[1]].index[e[2]], lib_out.feature_vector)

\* fewer than k other entries of the visited shards are as near as e
AmongKNearest(e) ==
    Cardinality({f \in ProbedEntries : f # e /\ DistanceOf(f) <= DistanceOf(e)})
        < lib_out.k

\* the entry is in the returned list
InResult(e) ==
    \E i \in 1 .. Len(lib_out.result) :
        /\ lib_out.result[i].color_category = e[1]
        /\ lib_out.result[i].product_id = lib_index.color_indices[e[1]].product_ids[e[2]]
        /\ lib_out.result[i].distance = DistanceOf(e)

\* what the loop over the shards collected before the sort
Merged ==
    AllResults(lib_index, lib_out.feature_vector, lib_out.color_category, lib_out.k,
               lib_out.search_similar_colors, lib_out.tie)

\* every visited shard gives its k nearest entries, or all it has, to the merge
EveryShardGivesK ==
    Searched =>
        \A c \in ProbedShards :
            Cardinality({i \in 1 .. Len(Merged) : Merged[i].color_category = c})
                = Min(lib_out.k, Len(lib_index.color_indices[c].index))

\* an entry among the k nearest of the visited shards is returned
NearestNeverMissing ==
    Searched => \A e \in ProbedEntries : AmongKNearest(e) => InResult(e)

\* C24: every visited shard, primary or not, gives its k nearest entries (all
\* of them when it has fewer than k) to the merge, and an entry that is among
\* the k nearest over all visited shards is in the returned list.
C24_KNearestOfEveryShardKept ==
    /\ EveryShardGivesK
    /\ NearestNeverMissing

\* the same with the primary shard the only one that holds entries
NearestNeverMissingInPrimaryOnly ==
    (/\ Searched
     /\ \A c \in ShardKeys : c # lib_out.color_category
            => lib_index.color_indices[c].index = <<>>)
        => \A e \in ProbedEntries : AmongKNearest(e) => InResult(e)

\* no build, search or signal handler is running
NoCallRunning == \A t \in Threads : th[t].pc = "idle"

\* there is a live index, its build has returned and every handler has returned
LiveIndexSettled ==
    /\ NoCallRunning
    /\ index_ref # 0
    /\ heap[index_ref].complete

\* where the index object holds the product: (shard, position) pairs
Occurrences(obj, p) ==
    {e \in ShardKeys \X (1 .. Total(obj)) :
        /\ e[2] <= Len(obj.color_indices[e[1]].product_ids)
        /\ obj.color_indices[e[1]].product_ids[e[2]] = p}

\* the index object holds the product as a build from the catalog would: once,
\* in the shard of its color_category, with its embedding, when it has an
\* embedding, and not at all otherwise
AsFreshBuild(obj, p) ==
    IF catalog[p].exists /\ catalog[p].has_embedding
    THEN \E e \in Occurrences(obj, p) :
             /\ Occurrences(obj, p) = {e}
             /\ e[1] = (IF catalog[p].color_category \in ShardKeys
                        THEN catalog[p].color_category
                        ELSE "unknown")
             /\ obj.color_indices[e[1]].index[e[2]] = catalog[p].visual_embedding
    ELSE Occurrences(obj, p) = {}

\* C25: when the post_save and post_delete handlers have returned, the live
\* index holds what a fresh build from the catalog would hold: every product
\* with an embedding once, in the shard of its current color_category, and no
\* deleted product.
C25_LiveIndexEqualsFreshBuild ==
    LiveIndexSettled =>
        \A p \in Products : AsFreshBuild(heap[index_ref], p)

\* no product is held twice by the live index
LiveIndexHoldsNoProductTwice ==
    LiveIndexSettled =>
        \A p \in Products : Cardinality(Occurrences(heap[index_ref], p)) <= 1

\* C26: in every state of the job row, status SUCCESS comes with results and
\* completed_at set, status FAILURE with error_message and completed_at set,
\* and status PENDING or PROCESSING with results, error_message and
\* completed_at all unset.
C26_JobFieldsMatchStatus ==
    /\ job_row.status = "SUCCESS"
           => (~job_row.results.isnull /\ job_row.completed_at # Null)
    /\ job_row.status = "FAILURE"
           => (job_row.error_message # Null /\ job_row.completed_at # Null)
    /\ job_row.status \in {"PENDING", "PROCESSING"}
           => /\ job_row.results.isnull
              /\ job_row.error_message = Null
              /\ job_row.completed_at = Null

\* the parts of C26 for the two terminal statuses
TerminalJobFieldsSet ==
    /\ job_row.status = "SUCCESS"
           => (~job_row.results.isnull /\ job_row.completed_at # Null)
    /\ job_row.status = "FAILURE"
           => (job_row.error_message # Null /\ job_row.completed_at # Null)

\* the (product_id, vector) pairs of a shard by position
Pairs(shard) ==
    [i \in 1 .. Len(shard.index) |-> <<shard.product_ids[i], shard.index[i]>>]

\* C27: in every shard, after any sequence of add_product calls, calls whose
\* insertion raises included, product_ids has as many elements as the vector
\* store, the i-th product_id is that of the i-th vector, and every search hit
\* names the product whose vector is at the hit's distance.
C27_ProductIdsAlignedWithVectors ==
    /\ \A c \in ShardKeys :
           Len(lib_index.color_indices[c].product_ids)
               = Len(lib_index.color_indices[c].index)
    /\ lib_out.op = "add_failed" => lib_index = lib_out.before
    /\ lib_out.op = "add" =>
           \E c \in ShardKeys :
               Pairs(lib_index.color_indices[c]) =
                   Append(Pairs(lib_out.before.color_indices[c]),
                          <<lib_out.product_id, lib_out.feature_vector>>)
    /\ lib_out.op = "search" =>
           \A r \in 1 .. Len(lib_out.result) :
               \E i \in 1 .. Len(lib_index.color_indices[
                                     lib_out.result[r].color_category].index) :
                   Pairs(lib_index.color_indices[
                             lib_out.result[r].color_category])[i]
                       [1] = lib_out.result[r].product_id
                   /\ L2(Pairs(lib_index.color_indices[
                                   lib_out.result[r].color_category])[i][2],
                         lib_out.feature_vector) = lib_out.result[r].distance

\* an add_product call raised on an index that holds entries
C27_Witness ==
    /\ lib_out.op = "add_failed"
    /\ Total(lib_index) = MaxEntries
    /\ lib_index = lib_out.before

\* the one Response to a requester who is neither the job's user nor a superuser
PermissionDenied ==
    [http |-> "403", status |-> "FAILURE", results |-> NullResults,
     error |-> "Permission denied."]

\* C28: get_visual_search_result answers a stored job with its status, results
\* or error message only to the job's user or a superuser; to any other
\* requester it answers 'Permission denied.', the same Response whatever the
\* job's status and results are.
C28_OnlyOwnerOrSuperuserReadsJob ==
    [][\A u \in Users :
          (get_visual_search_result(u) /\ job_row.status # "ABSENT") =>
              IF u = JobUser \/ IsSuperuser(u)
              THEN /\ response'.payload.http = "200"
                   /\ response'.payload.status = job_row.status
              ELSE response'.payload = PermissionDenied]_vars

\* a requester who is not the job's user was refused while the job holds results
C28_Witness ==
    /\ response.to = "other"
    /\ response.payload = PermissionDenied
    /\ job_row.status = "SUCCESS"
    /\ job_row.results # NullResults

====
